---- MODULE Spec2Model ----
(***************************************************************************)
(* Model of scripts/calculator.js: validateInput, getArrayOfTokens,        *)
(* fixParenthesesMultiplication, fixNegativeNumbers, convertToPostfix and  *)
(* evaluateExpression.                                                     *)
(*                                                                         *)
(* A JavaScript string is a sequence of one-character strings, a token     *)
(* array is a sequence of such strings.  JavaScript numbers are modelled   *)
(* as exact rationals plus NaN, Infinity and -Infinity (floating-point     *)
(* rounding error is not modelled; the sign of zero is not modelled, the   *)
(* code never observes it on the paths modelled here).                     *)
(***************************************************************************)
EXTENDS Integers, Sequences, FiniteSets, TLC

\* ------------------------------------------------------------------ bounds
\* longest input drawn from the full alphabet (RawChars)
MaxLen == 3
\* longest input drawn from the expression grammar (ExprsOfLen)
MaxExprLen == 7
\* the loop of convertToPostfix that pops until "(" is cut off once the
\* postfix array has grown to this length
MaxPostfix == 9

\* ------------------------------------------------------------- characters
DigitChars == {"0", "1", "2", "3", "4", "5", "6", "7", "8", "9"}
OperatorString == <<"*", "/", "-", "+", "(", ")">>
AllowedElements == DigitChars \cup {".", "(", ")", "*", "/", "-", "+"}
Whitespace == {" "}

\* the value of a token array slot or variable that holds no string
Undefined == <<"undefined">>

InvalidInput == "Invalid Input"
DivisionByZero == "Can not divide by zero."
NoError == ""

Range(s) == {s[i] : i \in 1..Len(s)}

Last(s) == s[Len(s)]

Front(s) == SubSeq(s, 1, Len(s) - 1)

\* Array.prototype.splice(at0, 0, x) with a 0-based index
InsertAt(arr, at0, x) ==
  SubSeq(arr, 1, at0) \o <<x>> \o SubSeq(arr, at0 + 1, Len(arr))

\* Array.prototype.splice(at0, 1) with a 0-based index
RemoveAt(arr, at0) ==
  SubSeq(arr, 1, at0) \o SubSeq(arr, at0 + 2, Len(arr))

\* arr[i0] with a 0-based index: undefined outside the array
At(arr, i0) == IF i0 >= 0 /\ i0 < Len(arr) THEN arr[i0 + 1] ELSE Undefined

\* ---------------------------------------------------------------- numbers
Abs(x) == IF x < 0 THEN -x ELSE x

RECURSIVE Gcd(_, _)
Gcd(a, b) == IF b = 0 THEN a ELSE Gcd(b, a % b)

RECURSIVE Pow10(_)
Pow10(k) == IF k = 0 THEN 1 ELSE 10 * Pow10(k - 1)

NaN == [k |-> "nan", n |-> 0, d |-> 1]
Infinity == [k |-> "inf", n |-> 1, d |-> 1]
NegInfinity == [k |-> "inf", n |-> -1, d |-> 1]

\* the finite number n/d, d # 0, in lowest terms with a positive denominator
Fin(n, d) ==
  LET g == Gcd(Abs(n), Abs(d))
      s == IF d < 0 THEN -1 ELSE 1
  IN [k |-> "fin", n |-> (s * n) \div g, d |-> (s * d) \div g]

IsFinite(v) == v.k = "fin"

Sign(v) == IF v.n > 0 THEN 1 ELSE IF v.n < 0 THEN -1 ELSE 0

Signed(s) == IF s > 0 THEN Infinity ELSE IF s < 0 THEN NegInfinity ELSE NaN

NumAdd(a, b) ==
  IF a.k = "nan" \/ b.k = "nan" THEN NaN
  ELSE IF a.k = "inf" /\ b.k = "inf" THEN (IF a.n = b.n THEN a ELSE NaN)
  ELSE IF a.k = "inf" THEN a
  ELSE IF b.k = "inf" THEN b
  ELSE Fin(a.n * b.d + b.n * a.d, a.d * b.d)

NumNeg(a) == IF a.k = "nan" THEN NaN ELSE [a EXCEPT !.n = -a.n]

NumSub(a, b) == NumAdd(a, NumNeg(b))

NumMul(a, b) ==
  IF a.k = "nan" \/ b.k = "nan" THEN NaN
  ELSE IF a.k = "inf" \/ b.k = "inf" THEN Signed(Sign(a) * Sign(b))
  ELSE Fin(a.n * b.n, a.d * b.d)

\* IEEE division; a zero divisor here is +0 (the string "0": a number 0 is
\* caught by operate['/'] before it divides)
NumDiv(a, b) ==
  IF a.k = "nan" \/ b.k = "nan" THEN NaN
  ELSE IF a.k = "inf" /\ b.k = "inf" THEN NaN
  ELSE IF a.k = "inf" THEN (IF Sign(b) < 0 THEN NumNeg(a) ELSE a)
  ELSE IF b.k = "inf" THEN Fin(0, 1)
  ELSE IF b.n = 0 THEN Signed(Sign(a))
  ELSE Fin(a.n * b.d, a.d * b.n)

\* Math.round: to the nearest integer, a half rounds up
MathRound(v) ==
  IF v.k # "fin" THEN v ELSE Fin((2 * v.n + v.d) \div (2 * v.d), 1)

DigitValue(c) ==
  CASE c = "0" -> 0 [] c = "1" -> 1 [] c = "2" -> 2 [] c = "3" -> 3
    [] c = "4" -> 4 [] c = "5" -> 5 [] c = "6" -> 6 [] c = "7" -> 7
    [] c = "8" -> 8 [] c = "9" -> 9

DigitChar(n) ==
  CASE n = 0 -> "0" [] n = 1 -> "1" [] n = 2 -> "2" [] n = 3 -> "3"
    [] n = 4 -> "4" [] n = 5 -> "5" [] n = 6 -> "6" [] n = 7 -> "7"
    [] n = 8 -> "8" [] n = 9 -> "9"

\* the digits of s read as one decimal integer, the decimal point skipped
RECURSIVE DigitsValue(_)
DigitsValue(s) ==
  IF s = <<>> THEN 0
  ELSE IF Last(s) = "." THEN DigitsValue(Front(s))
  ELSE 10 * DigitsValue(Front(s)) + DigitValue(Last(s))

\* how many characters follow the decimal point of s (0 without a point)
RECURSIVE FractionLen(_)
FractionLen(s) ==
  IF s = <<>> \/ "." \notin Range(s) THEN 0
  ELSE IF Last(s) = "." THEN 0
  ELSE 1 + FractionLen(Front(s))

\* an unsigned decimal literal: digits with at most one decimal point
IsDecimalLiteral(s) ==
  /\ \A i \in 1..Len(s) : s[i] \in DigitChars \cup {"."}
  /\ \E i \in 1..Len(s) : s[i] \in DigitChars
  /\ Cardinality({i \in 1..Len(s) : s[i] = "."}) <= 1

\* Number(element) for a string over digits, ".", operators and letters
\* (no exponent, hex or "Infinity" literal occurs in the alphabets used)
ToNumber(s) ==
  IF s = <<>> THEN Fin(0, 1)
  ELSE LET signed == Head(s) \in {"-", "+"}
           body == IF signed THEN Tail(s) ELSE s
       IN IF ~IsDecimalLiteral(body) THEN NaN
          ELSE LET m == Fin(DigitsValue(body), Pow10(FractionLen(body)))
               IN IF Head(s) = "-" THEN NumNeg(m) ELSE m

RECURSIVE NatToString(_)
NatToString(n) ==
  IF n < 10 THEN <<DigitChar(n)>>
  ELSE NatToString(n \div 10) \o <<DigitChar(n % 10)>>

RECURSIVE FractionToString(_, _)
FractionToString(r, d) ==
  IF r = 0 THEN <<>>
  ELSE <<DigitChar((10 * r) \div d)>> \o FractionToString((10 * r) % d, d)

\* String(v) for a finite decimal v in fixed notation (1e-6 <= |v| < 1e21,
\* which every literal of the bounded inputs satisfies); -0 prints as "0"
NumberToString(v) ==
  LET a == Abs(v.n)
      r == a % v.d
  IN (IF v.n < 0 THEN <<"-">> ELSE <<>>)
       \o NatToString(a \div v.d)
       \o (IF r = 0 THEN <<>> ELSE <<".">> \o FractionToString(r, v.d))

\* ------------------------------------------------------------ lines 1 - 2
\* '*/-+()'.includes(element): element is a contiguous part of the string
isOperator(element) ==
  \E i \in 0..Len(OperatorString) :
    /\ i + Len(element) <= Len(OperatorString)
    /\ SubSeq(OperatorString, i + 1, i + Len(element)) = element

isNumber(element) == element # Undefined /\ ToNumber(element).k # "nan"

\* ----------------------------------------------------------- lines 9 - 34
\* the first loop of validateInput from character i (1-based) with the
\* running count t: TRUE when it, or the check after it, throws
RECURSIVE ParenthesesThrow(_, _, _)
ParenthesesThrow(input, i, t) ==
  IF i > Len(input) THEN t # 0
  ELSE IF input[i] = "(" THEN ParenthesesThrow(input, i + 1, t + 1)
  ELSE IF input[i] = ")"
    THEN (IF t - 1 < 0 THEN TRUE ELSE ParenthesesThrow(input, i + 1, t - 1))
  ELSE ParenthesesThrow(input, i + 1, t)

\* input.replace(/\s+/g, '')
RECURSIVE RemoveWhitespace(_)
RemoveWhitespace(input) ==
  IF input = <<>> THEN <<>>
  ELSE IF Head(input) \in Whitespace THEN RemoveWhitespace(Tail(input))
  ELSE <<Head(input)>> \o RemoveWhitespace(Tail(input))

\* the second loop of validateInput run on the input as given
DisallowedThrowWithSpaces(input) ==
  \E i \in 1..Len(input) : input[i] \notin AllowedElements

\* the second loop of validateInput
DisallowedThrow(input) ==
  \E i \in 1..Len(RemoveWhitespace(input)) :
    RemoveWhitespace(input)[i] \notin AllowedElements

\* TRUE when validateInput(input) throws Error("Invalid Input")
validateInputThrows(input) ==
  ParenthesesThrow(input, 1, 0) \/ DisallowedThrow(input)

\* ---------------------------------------------------------- lines 42 - 67
\* the inner while loop: i0 is the 0-based index i, cur is currToken
RECURSIVE ConsumeToken(_, _, _)
ConsumeToken(inputArray, i0, cur) ==
  IF i0 < Len(inputArray) - 1 /\ ~isOperator(<<inputArray[i0 + 2]>>)
    THEN IF "." \in Range(cur) /\ inputArray[i0 + 2] = "."
           THEN [thrown |-> TRUE, tok |-> cur, i |-> i0]
           ELSE ConsumeToken(inputArray, i0 + 1, cur \o <<inputArray[i0 + 2]>>)
    ELSE [thrown |-> FALSE, tok |-> cur, i |-> i0]

RECURSIVE TokenLoop(_, _, _)
TokenLoop(inputArray, i0, tokenArray) ==
  IF ~(i0 < Len(inputArray)) THEN [thrown |-> FALSE, tokens |-> tokenArray]
  ELSE IF isOperator(<<inputArray[i0 + 1]>>)
    THEN TokenLoop(inputArray, i0 + 1, Append(tokenArray, <<inputArray[i0 + 1]>>))
  ELSE LET r == ConsumeToken(inputArray, i0, <<inputArray[i0 + 1]>>)
       IN IF r.thrown \/ Last(r.tok) = "."
            THEN [thrown |-> TRUE, tokens |-> tokenArray]
            ELSE TokenLoop(inputArray, r.i + 1, Append(tokenArray, r.tok))

\* [thrown, tokens]: thrown when the call throws Error("Invalid Input")
getArrayOfTokens(input) == TokenLoop(RemoveWhitespace(input), 0, <<>>)

\* ---------------------------------------------------------- lines 74 - 91
\* line 77
CloseBeforeOpen(arr, i) == At(arr, i) = <<")">> /\ At(arr, i + 1) = <<"(">>

\* line 81
OpenAfterNumber(arr, i) == At(arr, i) = <<"(">> /\ isNumber(At(arr, i - 1))

\* line 86 looking one token too far
CloseBeforeNumberOffByOne(arr, i) ==
  At(arr, i) = <<")">> /\ isNumber(At(arr, i + 2))

\* line 86
CloseBeforeNumber(arr, i) == At(arr, i) = <<")">> /\ isNumber(At(arr, i + 1))

\* the loop from the 0-based index i
RECURSIVE FixParenLoop(_, _)
FixParenLoop(arr, i) ==
  IF ~(i < Len(arr) - 1) THEN arr
  ELSE IF CloseBeforeOpen(arr, i)
    THEN FixParenLoop(InsertAt(arr, i + 1, <<"*">>), i + 1)
  ELSE IF OpenAfterNumber(arr, i)
    THEN FixParenLoop(InsertAt(arr, i, <<"*">>), i + 2)
  ELSE IF CloseBeforeNumber(arr, i)
    THEN FixParenLoop(InsertAt(arr, i + 1, <<"*">>), i + 1)
  ELSE FixParenLoop(arr, i + 1)

fixParenthesesMultiplication(arr) == FixParenLoop(arr, 1)

\* --------------------------------------------------------- lines 98 - 121
\* String(-1 * element)
NegatedString(element) ==
  NumberToString(NumMul(Fin(-1, 1), ToNumber(element)))

\* line 101
MinusBeforeOpen(arr, i) == At(arr, i) = <<"-">> /\ At(arr, i + 1) = <<"(">>

\* line 110 leaving a leading '-' alone
MinusBeforeNumberNotFirst(arr, i) ==
  i > 0 /\ At(arr, i) = <<"-">> /\ isNumber(At(arr, i + 1))

\* line 110
MinusBeforeNumber(arr, i) == At(arr, i) = <<"-">> /\ isNumber(At(arr, i + 1))

\* line 105
PrecededByNumber(arr, i) == isNumber(At(arr, i - 1))

\* line 115
PrecededByOperand(arr, i) ==
  isNumber(At(arr, i - 1)) \/ At(arr, i - 1) = <<")">>

\* the loop from the 0-based index i
RECURSIVE FixNegLoop(_, _)
FixNegLoop(arr, i) ==
  IF ~(i < Len(arr)) THEN arr
  ELSE IF MinusBeforeOpen(arr, i)
    THEN LET a == InsertAt([arr EXCEPT ![i + 1] = <<"-", "1">>], i + 1, <<"*">>)
         IN IF PrecededByNumber(a, i)
              THEN FixNegLoop(InsertAt(a, i, <<"+">>), i + 2)
              ELSE FixNegLoop(a, i + 1)
  ELSE IF MinusBeforeNumber(arr, i)
    THEN LET a == RemoveAt([arr EXCEPT ![i + 2] = NegatedString(arr[i + 2])], i)
         IN IF PrecededByOperand(a, i)
              THEN FixNegLoop(InsertAt(a, i, <<"+">>), i + 1)
              ELSE FixNegLoop(a, i + 1)
  ELSE FixNegLoop(arr, i + 1)

fixNegativeNumbers(arr) == FixNegLoop(arr, 0)

\* ----------------------------------------------------------------- inputs
\* the characters raw inputs are drawn from: digits, the decimal point, the
\* operators, whitespace and a character validateInput does not allow
RawChars == {"0", "1", "2", ".", "+", "-", "*", "/", "(", ")", " ", "a"}

\* the digits of the grammar's number literals
ExprDigits == {"0", "3"}

RECURSIVE StringsOfLen(_)
StringsOfLen(n) ==
  IF n = 0 THEN {<<>>}
  ELSE {Append(s, c) : s \in StringsOfLen(n - 1), c \in RawChars}

RawInputs == UNION {StringsOfLen(n) : n \in 0..MaxLen}

\* the expressions of exactly n characters of the grammar
\*   E ::= T | E + T | E - T     T ::= F | T * F | T / F | T F
\*   F ::= digit | ( E ) | - F
\* where T F is an implicit multiplication: ")" before a digit or "(", or
\* a digit before "("
\* as [F, T, E], the sets of the factors, terms and expressions, given the
\* table tab of these sets for the lengths 1 .. n - 1
ExprsOfLen(tab, n) ==
  LET F == (IF n = 1 THEN {<<c>> : c \in ExprDigits} ELSE {})
             \cup (IF n >= 3
                     THEN {<<"(">> \o e \o <<")">> : e \in tab[n - 2].E}
                     ELSE {})
             \cup (IF n >= 2 THEN {<<"-">> \o f : f \in tab[n - 1].F} ELSE {})
      T == F \cup UNION {
             {t \o <<op>> \o f : t \in tab[k].T, f \in tab[n - k - 1].F,
                                 op \in {"*", "/"}} : k \in 1..(n - 2)}
             \cup UNION {
             {t \o f : t \in {u \in tab[k].T : Last(u) = ")"},
                       f \in {g \in tab[n - k].F : Head(g) # "-"}}
               : k \in 1..(n - 1)}
             \cup UNION {
             {t \o f : t \in {u \in tab[k].T : Last(u) \in ExprDigits},
                       f \in {g \in tab[n - k].F : Head(g) = "("}}
               : k \in 1..(n - 1)}
      E == T \cup UNION {
             {e \o <<op>> \o t : e \in tab[k].E, t \in tab[n - k - 1].T,
                                 op \in {"+", "-"}} : k \in 1..(n - 2)}
  IN [F |-> {x : x \in F}, T |-> {x : x \in T}, E |-> {x : x \in E}]

RECURSIVE ExprTable(_)
ExprTable(n) ==
  IF n = 0 THEN <<>>
  ELSE LET tab == ExprTable(n - 1) IN Append(tab, ExprsOfLen(tab, n))

ExprsOfTable(tab) == UNION {tab[n].E : n \in 1..Len(tab)}

ExprInputs == ExprsOfTable(ExprTable(MaxExprLen))

\* ------------------------------------------------------------------ state
VARIABLES
  entry,          \* the exported function that was called
  input,          \* its argument
  pc,             \* where the call is
  tokenArray,     \* convertToPostfix: tokenArray
  pos,            \* 1-based position of the running for loop
  postfixArray,   \* convertToPostfix: postfixArray
  operatorStack,  \* convertToPostfix: operatorStack
  currToken,      \* convertToPostfix: currToken of the ')' branch
  postfixStack,   \* evaluateExpression: postfixStack
  lastOp,         \* evaluateExpression: the operator last applied, its operands
  solution,       \* evaluateExpression: the value returned
  error,          \* the message of the Error thrown
  thrownBy        \* the step that threw it

vars == <<entry, input, pc, tokenArray, pos, postfixArray, operatorStack,
          currToken, postfixStack, lastOp, solution, error, thrownBy>>

\* a slot of postfixStack: a token (string), a number, or undefined
Str(s) == [t |-> "str", s |-> s, v |-> NaN]
Num(v) == [t |-> "num", s |-> <<>>, v |-> v]
UndefinedSlot == [t |-> "undef", s |-> <<>>, v |-> NaN]

\* Number(x) of a slot
SlotNumber(x) ==
  IF x.t = "str" THEN ToNumber(x.s) ELSE IF x.t = "num" THEN x.v ELSE NaN

NoOp == [op |-> <<>>, x |-> UndefinedSlot, y |-> UndefinedSlot]

Init ==
  /\ \/ entry = "evaluateExpression" /\ input \in RawInputs \cup ExprInputs
     \/ entry = "convertToPostfix" /\ input \in RawInputs
  /\ pc = IF entry = "evaluateExpression" THEN "validateInput"
          ELSE "getArrayOfTokens"
  /\ tokenArray = <<>>
  /\ pos = 1
  /\ postfixArray = <<>>
  /\ operatorStack = <<>>
  /\ currToken = Undefined
  /\ postfixStack = <<>>
  /\ lastOp = NoOp
  /\ solution = NaN
  /\ error = NoError
  /\ thrownBy = ""

Throw(message) ==
  /\ pc' = "thrown"
  /\ error' = message
  /\ thrownBy' = pc

\* line 178
ValidateInput ==
  /\ pc = "validateInput"
  /\ IF validateInputThrows(input)
       THEN Throw(InvalidInput)
       ELSE pc' = "getArrayOfTokens" /\ UNCHANGED <<error, thrownBy>>
  /\ UNCHANGED <<entry, input, tokenArray, pos, postfixArray, operatorStack,
                 currToken, postfixStack, lastOp, solution>>

\* line 139, innermost call
GetArrayOfTokens ==
  /\ pc = "getArrayOfTokens"
  /\ IF getArrayOfTokens(input).thrown
       THEN Throw(InvalidInput) /\ UNCHANGED tokenArray
       ELSE /\ tokenArray' = getArrayOfTokens(input).tokens
            /\ pc' = "fixParenthesesMultiplication"
            /\ UNCHANGED <<error, thrownBy>>
  /\ UNCHANGED <<entry, input, pos, postfixArray, operatorStack, currToken,
                 postfixStack, lastOp, solution>>

\* line 139, middle call
FixParenthesesMultiplication ==
  /\ pc = "fixParenthesesMultiplication"
  /\ tokenArray' = fixParenthesesMultiplication(tokenArray)
  /\ pc' = "fixNegativeNumbers"
  /\ UNCHANGED <<entry, input, pos, postfixArray, operatorStack, currToken,
                 postfixStack, lastOp, solution, error, thrownBy>>

\* line 139, outer call
FixNegativeNumbers ==
  /\ pc = "fixNegativeNumbers"
  /\ tokenArray' = fixNegativeNumbers(tokenArray)
  /\ pc' = "convert"
  /\ pos' = 1
  /\ UNCHANGED <<entry, input, postfixArray, operatorStack, currToken,
                 postfixStack, lastOp, solution, error, thrownBy>>

\* lines 130 - 136 with '(' ranked as the multiplicative operators are
precedenceOpenHigh ==
  [tok \in {<<"(">>, <<"+">>, <<"-">>, <<"*">>, <<"/">>} |->
     IF tok \in {<<"+">>, <<"-">>} THEN 2 ELSE 3]

\* lines 130 - 136
precedence ==
  [tok \in {<<"(">>, <<"+">>, <<"-">>, <<"*">>, <<"/">>} |->
     IF tok = <<"(">> THEN 1 ELSE IF tok \in {<<"+">>, <<"-">>} THEN 2 ELSE 3]

\* precedence[a] >= precedence[b]: false when either lookup is undefined
PrecedenceAtLeast(a, b) ==
  /\ a \in DOMAIN precedence
  /\ b \in DOMAIN precedence
  /\ precedence[a] >= precedence[b]

\* line 138
peek(stack) == IF stack = <<>> THEN Undefined ELSE Last(stack)

\* what Array.prototype.pop leaves
Popped(stack) == IF stack = <<>> THEN <<>> ELSE Front(stack)

RECURSIVE Reverse(_)
Reverse(s) == IF s = <<>> THEN <<>> ELSE Append(Reverse(Tail(s)), Head(s))

\* lines 143 - 165: one iteration of the for loop, up to its inner loop
ConvertToken ==
  /\ pc = "convert"
  /\ pos <= Len(tokenArray)
  /\ LET token == tokenArray[pos]
     IN IF ~isOperator(token)
          THEN /\ postfixArray' = Append(postfixArray, token)
               /\ pos' = pos + 1
               /\ UNCHANGED <<pc, operatorStack, currToken>>
        ELSE IF token = <<"(">>
          THEN /\ operatorStack' = Append(operatorStack, token)
               /\ pos' = pos + 1
               /\ UNCHANGED <<pc, postfixArray, currToken>>
        ELSE IF token = <<")">>
          THEN /\ currToken' = peek(operatorStack)
               /\ operatorStack' = Popped(operatorStack)
               /\ pc' = "closeParen"
               /\ UNCHANGED <<pos, postfixArray>>
        ELSE /\ pc' = "precedence"
             /\ UNCHANGED <<pos, postfixArray, operatorStack, currToken>>
  /\ UNCHANGED <<entry, input, tokenArray, postfixStack, lastOp, solution,
                 error, thrownBy>>

\* lines 153 - 156: the test of the while loop and one iteration
CloseParenLoop ==
  /\ pc = "closeParen"
  /\ IF currToken # <<"(">>
       THEN /\ currToken = Undefined => Len(postfixArray) < MaxPostfix
            /\ postfixArray' = Append(postfixArray, currToken)
            /\ currToken' = peek(operatorStack)
            /\ operatorStack' = Popped(operatorStack)
            /\ UNCHANGED <<pc, pos>>
       ELSE /\ pc' = "convert"
            /\ pos' = pos + 1
            /\ UNCHANGED <<postfixArray, currToken, operatorStack>>
  /\ UNCHANGED <<entry, input, tokenArray, postfixStack, lastOp, solution,
                 error, thrownBy>>

\* lines 160 - 163: the test of the while loop and one iteration, or the push
PrecedenceLoop ==
  /\ pc = "precedence"
  /\ IF operatorStack # <<>>
          /\ PrecedenceAtLeast(peek(operatorStack), tokenArray[pos])
       THEN /\ postfixArray' = Append(postfixArray, peek(operatorStack))
            /\ operatorStack' = Popped(operatorStack)
            /\ UNCHANGED <<pc, pos>>
       ELSE /\ operatorStack' = Append(operatorStack, tokenArray[pos])
            /\ pc' = "convert"
            /\ pos' = pos + 1
            /\ UNCHANGED postfixArray
  /\ UNCHANGED <<entry, input, tokenArray, currToken, postfixStack, lastOp,
                 solution, error, thrownBy>>

\* lines 166 - 169: the operators left are moved over, the call returns
DrainOperatorStack ==
  /\ pc = "convert"
  /\ pos > Len(tokenArray)
  /\ postfixArray' = postfixArray \o Reverse(operatorStack)
  /\ operatorStack' = <<>>
  /\ pos' = 1
  /\ pc' = IF entry = "evaluateExpression" THEN "evaluate" ELSE "returned"
  /\ UNCHANGED <<entry, input, tokenArray, currToken, postfixStack, lastOp,
                 solution, error, thrownBy>>

\* line 184: x === 0
IsNumberZero(x) == x.t = "num" /\ x.v.k = "fin" /\ x.v.n = 0

\* lines 179 - 189: operate[op](x, y) where '/' does not throw
operate(op, x, y) ==
  IF op = <<"+">> THEN NumAdd(SlotNumber(x), SlotNumber(y))
  ELSE IF op = <<"-">> THEN NumSub(SlotNumber(y), SlotNumber(x))
  ELSE IF op = <<"*">> THEN NumMul(SlotNumber(x), SlotNumber(y))
  ELSE NumDiv(SlotNumber(y), SlotNumber(x))

\* lines 184 - 186: whether operate[op](x, y) throws
operateThrows(op, x) == op = <<"/">> /\ IsNumberZero(x)

\* lines 192 - 202: one iteration of the for loop
EvaluateToken ==
  /\ pc = "evaluate"
  /\ pos <= Len(postfixArray)
  /\ LET token == postfixArray[pos]
         elementOne ==
           IF postfixStack = <<>> THEN UndefinedSlot ELSE Last(postfixStack)
         afterOne == Popped(postfixStack)
         elementTwo == IF afterOne = <<>> THEN UndefinedSlot ELSE Last(afterOne)
         afterTwo == Popped(afterOne)
     IN IF isOperator(token)
          THEN /\ lastOp' = [op |-> token, x |-> elementOne, y |-> elementTwo]
               /\ IF token \notin {<<"+">>, <<"-">>, <<"*">>, <<"/">>}
                    THEN /\ Throw("operation is not a function")
                         /\ postfixStack' = afterTwo
                         /\ UNCHANGED pos
                  ELSE IF operateThrows(token, elementOne)
                    THEN /\ Throw(DivisionByZero)
                         /\ postfixStack' = afterTwo
                         /\ UNCHANGED pos
                  ELSE /\ postfixStack' =
                            Append(afterTwo,
                                   Num(operate(token, elementOne, elementTwo)))
                       /\ pos' = pos + 1
                       /\ UNCHANGED <<pc, error, thrownBy>>
          ELSE /\ postfixStack' = Append(postfixStack, Str(token))
               /\ pos' = pos + 1
               /\ UNCHANGED <<pc, error, thrownBy, lastOp>>
  /\ UNCHANGED <<entry, input, tokenArray, postfixArray, operatorStack,
                 currToken, solution>>

\* line 204
RoundingScale == 10000

roundedSolution(x) ==
  NumDiv(MathRound(NumMul(SlotNumber(x), Fin(RoundingScale, 1))),
         Fin(RoundingScale, 1))

\* line 207
RejectsResult(stack, sol) == Len(stack) # 1 \/ sol.k = "nan"

\* lines 204 - 211
ReturnSolution ==
  /\ pc = "evaluate"
  /\ pos > Len(postfixArray)
  /\ LET sol == roundedSolution(IF postfixStack = <<>> THEN UndefinedSlot
                                ELSE postfixStack[1])
     IN IF RejectsResult(postfixStack, sol)
          THEN Throw(InvalidInput) /\ UNCHANGED solution
          ELSE solution' = sol /\ pc' = "returned" /\ UNCHANGED <<error, thrownBy>>
  /\ UNCHANGED <<entry, input, tokenArray, pos, postfixArray, operatorStack,
                 currToken, postfixStack, lastOp>>

Next ==
  \/ ValidateInput
  \/ GetArrayOfTokens
  \/ FixParenthesesMultiplication
  \/ FixNegativeNumbers
  \/ ConvertToken
  \/ CloseParenLoop
  \/ PrecedenceLoop
  \/ DrainOperatorStack
  \/ EvaluateToken
  \/ ReturnSolution

Spec == Init /\ [][Next]_vars

\* ------------------------------------------------- the arithmetic meaning
\* The value standard arithmetic gives an expression, by recursive descent
\* over its characters:
\*   expr ::= term (('+' | '-') term)*         left to right
\*   term ::= factor (('*' | '/' | ) factor)*  left to right; a factor that
\*            follows directly is multiplied when one side is a parenthesis
\*   factor ::= literal | '(' expr ')' | '-' factor
\* A result is [ok, dz, v, p]: whether a phrase was read, whether it divides
\* by zero, its value, and the position after it.
LiteralChars == DigitChars \cup {"."}

RefFail == [ok |-> FALSE, dz |-> FALSE, v |-> NaN, p |-> 0]

\* the last position of the run of literal characters that starts at i
RECURSIVE RefRunEnd(_, _)
RefRunEnd(s, i) ==
  IF i < Len(s) /\ s[i + 1] \in LiteralChars THEN RefRunEnd(s, i + 1) ELSE i

RefLiteral(s, i) ==
  LET j == RefRunEnd(s, i)
      lit == SubSeq(s, i, j)
  IN IF IsDecimalLiteral(lit) /\ Last(lit) # "."
       THEN [ok |-> TRUE, dz |-> FALSE, v |-> ToNumber(lit), p |-> j + 1]
       ELSE RefFail

RefApply(op, a, b) ==
  LET dz == a.dz \/ b.dz \/ (op = "/" /\ b.v.n = 0)
  IN [ok |-> TRUE, dz |-> dz, p |-> b.p,
      v |-> IF dz THEN NaN
            ELSE IF op = "+" THEN Fin(a.v.n * b.v.d + b.v.n * a.v.d, a.v.d * b.v.d)
            ELSE IF op = "-" THEN Fin(a.v.n * b.v.d - b.v.n * a.v.d, a.v.d * b.v.d)
            ELSE IF op = "*" THEN Fin(a.v.n * b.v.n, a.v.d * b.v.d)
            ELSE Fin(a.v.n * b.v.d, a.v.d * b.v.n)]

RefJuxtaposed(a, b) ==
  \/ a = ")" /\ b \in LiteralChars \cup {"("}
  \/ a \in LiteralChars /\ b = "("

RECURSIVE RefExpr(_, _)
RECURSIVE RefExprRest(_, _)
RECURSIVE RefTerm(_, _)
RECURSIVE RefTermRest(_, _)
RECURSIVE RefFactor(_, _)

RefFactor(s, i) ==
  IF i > Len(s) THEN RefFail
  ELSE IF s[i] = "-"
    THEN LET r == RefFactor(s, i + 1)
         IN IF r.ok THEN [r EXCEPT !.v = IF r.dz THEN NaN ELSE Fin(-r.v.n, r.v.d)]
            ELSE RefFail
  ELSE IF s[i] = "("
    THEN LET r == RefExpr(s, i + 1)
         IN IF r.ok /\ r.p <= Len(s) /\ s[r.p] = ")"
              THEN [r EXCEPT !.p = r.p + 1]
              ELSE RefFail
  ELSE IF s[i] \in LiteralChars THEN RefLiteral(s, i)
  ELSE RefFail

\* acc is the term read so far, ending before position acc.p
RefTermRest(s, acc) ==
  LET i == acc.p
  IN IF i <= Len(s) /\ s[i] \in {"*", "/"}
       THEN LET f == RefFactor(s, i + 1)
            IN IF f.ok THEN RefTermRest(s, RefApply(s[i], acc, f)) ELSE RefFail
     ELSE IF i <= Len(s) /\ RefJuxtaposed(s[i - 1], s[i])
       THEN LET f == RefFactor(s, i)
            IN IF f.ok THEN RefTermRest(s, RefApply("*", acc, f)) ELSE RefFail
     ELSE acc

RefTerm(s, i) ==
  LET f == RefFactor(s, i) IN IF f.ok THEN RefTermRest(s, f) ELSE RefFail

RefExprRest(s, acc) ==
  LET i == acc.p
  IN IF i <= Len(s) /\ s[i] \in {"+", "-"}
       THEN LET t == RefTerm(s, i + 1)
            IN IF t.ok THEN RefExprRest(s, RefApply(s[i], acc, t)) ELSE RefFail
     ELSE acc

RefExpr(s, i) ==
  LET t == RefTerm(s, i) IN IF t.ok THEN RefExprRest(s, t) ELSE RefFail

\* s is an expression of the grammar
IsExpression(s) == LET r == RefExpr(s, 1) IN r.ok /\ r.p = Len(s) + 1

\* s is an expression, and no division in it is by zero
WellFormed(s) == IsExpression(s) /\ ~RefExpr(s, 1).dz

RefValue(s) == RefExpr(s, 1).v

\* a value as evaluateExpression reports it: to four decimal places
Rounded(v) ==
  Fin((2 * v.n * RoundingScale + v.d) \div (2 * v.d), RoundingScale)

Finished == pc \in {"returned", "thrown"}

Returns(v) == pc = "returned" /\ solution = v

\* the expression the caller wrote
Expression == RemoveWhitespace(input)

OperandEnd == LiteralChars \cup {")"}

\* ------------------------------------------------------------------- C1
\* C1: whenever evaluateExpression applies '/' with a divisor (the operand
\* popped first) whose numeric value is zero, the call fails with the
\* error "Can not divide by zero.", whether the divisor is a literal of the
\* input or the result of a sub-expression.
C1_ZeroDivisorThrows ==
  (lastOp.op = <<"/">> /\ SlotNumber(lastOp.x) = Fin(0, 1))
    => (pc = "thrown" /\ error = DivisionByZero)

\* ------------------------------------------------------------------- C2
\* s is L-(G) with the '-' at position k, L and G well formed
IsGroupSubtraction(s, k) ==
  /\ s[k] = "-"
  /\ s[k + 1] = "("
  /\ Last(s) = ")"
  /\ WellFormed(SubSeq(s, 1, k - 1))
  /\ WellFormed(SubSeq(s, k + 2, Len(s) - 1))

RefDifference(a, b) == Fin(a.n * b.d - b.n * a.d, a.d * b.d)

\* C2: for every well-formed L-(G), where L ends in a number literal or in
\* ')', evaluateExpression returns value(L) minus value(G).
C2_GroupSubtraction ==
  (entry = "evaluateExpression" /\ Finished)
    => \A k \in 2..(Len(Expression) - 3) :
         IsGroupSubtraction(Expression, k)
           => Returns(Rounded(RefDifference(
                 RefValue(SubSeq(Expression, 1, k - 1)),
                 RefValue(SubSeq(Expression, k + 2, Len(Expression) - 1)))))

\* ------------------------------------------------------------------- C3
\* every '-' of s is binary and every multiplication of s is written
ExplicitBinaryOnly(s) ==
  /\ \A i \in 1..Len(s) : s[i] = "-" => (i > 1 /\ s[i - 1] \in OperandEnd)
  /\ \A i \in 1..(Len(s) - 1) : ~RefJuxtaposed(s[i], s[i + 1])

\* C3: for every well-formed expression of number literals, binary + - * /
\* and explicit parentheses, without a division by zero,
\* evaluateExpression returns the value standard arithmetic gives it
\* (* and / before + and -, equal precedence left to right, parentheses
\* first).
C3_StandardArithmetic ==
  (entry = "evaluateExpression" /\ Finished /\ WellFormed(Expression)
     /\ ExplicitBinaryOnly(Expression))
    => Returns(Rounded(RefValue(Expression)))

\* ------------------------------------------------------------------- C8
\* the '-' at position k of s is unary
IsUnaryMinus(s, k) == s[k] = "-" /\ (k = 1 \/ s[k - 1] \notin OperandEnd)

\* s has a unary '-' directly before '(', and no unary '-' directly before
\* another '-'
NegatesGroup(s) ==
  /\ \E k \in 1..(Len(s) - 1) : IsUnaryMinus(s, k) /\ s[k + 1] = "("
  /\ \A k \in 1..(Len(s) - 1) : IsUnaryMinus(s, k) => s[k + 1] # "-"

\* C8: a unary '-' directly before '(' negates the value of the group in
\* every operator context: at the start of the expression and after any
\* operator, '*' and '/' included.
C8_UnaryMinusNegatesGroup ==
  (entry = "evaluateExpression" /\ Finished /\ WellFormed(Expression)
     /\ NegatesGroup(Expression))
    => Returns(Rounded(RefValue(Expression)))

\* ------------------------------------------------------------------- C6
\* C6: evaluateExpression returns a value only if the evaluation stack holds
\* exactly one value after the scan and that value is a finite number; when
\* an operator finds too few operands, or the result is no finite number,
\* it fails with "Invalid Input".
C6_ReturnsOnlyOneFiniteValue ==
  entry = "evaluateExpression"
    => /\ pc = "returned"
            => /\ Len(postfixStack) = 1
               /\ IsFinite(SlotNumber(postfixStack[1]))
               /\ IsFinite(solution)
       /\ (Finished /\ lastOp.op # <<>> /\ lastOp.y.t = "undef")
            => (pc = "thrown" /\ error = InvalidInput)

\* ------------------------------------------------------------------- C9
\* C9: convertToPostfix, called on its own, fails with "Invalid Input" when
\* it meets a ')' with no '(' on the operator stack; it does not go on
\* popping the empty stack (which yields undefined each time).
C9_UnmatchedCloseThrows ==
  entry = "convertToPostfix"
    => /\ Undefined \notin Range(postfixArray)
       /\ (pc = "thrown" /\ thrownBy = "closeParen") => error = InvalidInput

\* ------------------------------------------------------------------- C4
\* '(' minus ')' among the first k characters of s
Depth(s, k) ==
  Cardinality({i \in 1..k : s[i] = "("}) - Cardinality({i \in 1..k : s[i] = ")"})

ParensBalanced(s) ==
  /\ \A k \in 1..Len(s) : Depth(s, k) >= 0
  /\ Depth(s, Len(s)) = 0

\* a number token as the tokenizer produces it
IsNumberToken(tok) == IsDecimalLiteral(tok)

\* an implicit multiplication between the adjacent tokens a b
NeedsStar(a, b) ==
  \/ a = <<")">> /\ b = <<"(">>
  \/ IsNumberToken(a) /\ b = <<"(">>
  \/ a = <<")">> /\ IsNumberToken(b)

\* toks with one '*' put into each such adjacency
RECURSIVE WithStars(_)
WithStars(toks) ==
  IF Len(toks) <= 1 THEN toks
  ELSE <<toks[1]>>
         \o (IF NeedsStar(toks[1], toks[2]) THEN <<<<"*">>>> ELSE <<>>)
         \o WithStars(Tail(toks))

\* s is an expression written without any operator: numbers and groups
\* that follow each other directly
IsChain(s) ==
  /\ WellFormed(s)
  /\ \A i \in 1..Len(s) : s[i] \in LiteralChars \cup {"(", ")"}

\* C4: on the tokens of an input with balanced parentheses,
\* fixParenthesesMultiplication returns the tokens with exactly one '*'
\* inserted into each adjacency ')' '(' , number '(' and ')' number, nothing
\* else changed, so that no such adjacency is left; and a chain of groups
\* and numbers evaluates to their product.
C4_ImplicitMultiplication ==
  /\ (pc = "fixNegativeNumbers" /\ ParensBalanced(input))
       => /\ tokenArray = WithStars(getArrayOfTokens(input).tokens)
          /\ \A i \in 1..(Len(tokenArray) - 1) :
               ~NeedsStar(tokenArray[i], tokenArray[i + 1])
  /\ (entry = "evaluateExpression" /\ Finished /\ IsChain(Expression))
       => Returns(Rounded(RefValue(Expression)))

\* a chain with two implicit multiplications has been evaluated
C4_Witness ==
  /\ pc = "returned"
  /\ entry = "evaluateExpression"
  /\ IsChain(Expression)
  /\ Len(tokenArray) = Len(getArrayOfTokens(input).tokens) + 2
  /\ solution = Fin(27, 1)

\* ------------------------------------------------------------------- C5
ExpressionChars ==
  {"0", "1", "2", "3", "4", "5", "6", "7", "8", "9", ".", "+", "-", "*", "/",
   "(", ")"}

\* what the validator is to reject
Rejected(s) ==
  \/ \E k \in 1..Len(s) : Depth(s, k) < 0
  \/ Depth(s, Len(s)) # 0
  \/ \E i \in 1..Len(s) : s[i] \notin Whitespace \cup ExpressionChars

\* C5: validateInput throws "Invalid Input" exactly on the inputs whose
\* count of '(' minus ')' goes negative or ends nonzero, or that hold a
\* character other than whitespace, digits, '.', + - * / ( ); and
\* evaluateExpression then fails before it tokenizes anything.
C5_ValidateInput ==
  (entry = "evaluateExpression" /\ pc # "validateInput")
    => /\ Rejected(input) <=> thrownBy = "validateInput"
       /\ thrownBy = "validateInput"
            => /\ pc = "thrown"
               /\ error = InvalidInput
               /\ tokenArray = <<>>
               /\ postfixArray = <<>>

\* rejected although the counts of '(' and ')' agree: a ')' came first
C5_Witness ==
  /\ pc = "thrown"
  /\ thrownBy = "validateInput"
  /\ Depth(input, Len(input)) = 0
  /\ \A i \in 1..Len(input) : input[i] \in ExpressionChars

\* ------------------------------------------------------------------ C10
IsParen(tok) == tok \in {<<"(">>, <<")">>}

IsOperatorToken(tok) ==
  tok \in {<<"+">>, <<"-">>, <<"*">>, <<"/">>, <<"(">>, <<")">>}

Count(seq, tok) == Cardinality({i \in 1..Len(seq) : seq[i] = tok})

NotParen(tok) == ~IsParen(tok)

NotOperatorToken(tok) == ~IsOperatorToken(tok)

\* convertToPostfix has returned
ConvertReturned ==
  \/ pc \in {"evaluate", "returned"}
  \/ pc = "thrown" /\ thrownBy = "evaluate"

\* C10: on tokens with balanced parentheses, convertToPostfix never moves a
\* '(' to the output (the precedence loop never pops one), returns with the
\* operator stack empty, and returns exactly the tokens that are no
\* parentheses, the numbers in their original order.
C10_PostfixTokens ==
  ParensBalanced(input)
    => /\ ~\E i \in 1..Len(postfixArray) : IsParen(postfixArray[i])
       /\ (pc = "precedence" /\ operatorStack # <<>>
             /\ PrecedenceAtLeast(peek(operatorStack), tokenArray[pos]))
            => peek(operatorStack) # <<"(">>
       /\ ConvertReturned
            => /\ operatorStack = <<>>
               /\ Len(postfixArray) = Len(SelectSeq(tokenArray, NotParen))
               /\ \A i \in 1..Len(tokenArray) :
                    Count(postfixArray, tokenArray[i])
                      = Count(SelectSeq(tokenArray, NotParen), tokenArray[i])
               /\ SelectSeq(postfixArray, NotOperatorToken)
                    = SelectSeq(tokenArray, NotOperatorToken)

\* a conversion that met an operator waiting below a '(' has returned
C10_Witness ==
  /\ ConvertReturned
  /\ \E i \in 1..(Len(tokenArray) - 1) :
       /\ tokenArray[i] \in {<<"+">>, <<"*">>, <<"/">>}
       /\ tokenArray[i + 1] = <<"(">>
  /\ Len(postfixArray) >= 5

\* ------------------------------------------------------------------- C7
\* fixNegativeNumbers has run
AfterFixNegativeNumbers ==
  \/ pc \in {"convert", "closeParen", "precedence", "evaluate", "returned"}
  \/ pc = "thrown" /\ thrownBy \in {"convert", "closeParen", "precedence",
                                     "evaluate"}

\* the '-' of s that are directly followed by another '-'
DoubledMinus(s) == {i \in 1..(Len(s) - 1) : s[i] = "-" /\ s[i + 1] = "-"}

\* C7 as stated: after fixNegativeNumbers has run on a well-formed input, no
\* token '-' is left, the postfix sequence holds no '-' and the evaluator
\* never applies '-'.
C7_NoMinusToken ==
  (IsExpression(Expression) /\ AfterFixNegativeNumbers)
    => /\ Count(tokenArray, <<"-">>) = 0
       /\ Count(postfixArray, <<"-">>) = 0
       /\ lastOp.op # <<"-">>

\* C7 amended: after fixNegativeNumbers has run on a well-formed input, the
\* tokens '-' left are exactly the '-' that another '-' follows directly;
\* without such a '-' no token '-' is left, the postfix sequence holds none
\* and the evaluator never applies '-'.
C7_MinusTokenOnlyBeforeMinus ==
  (IsExpression(Expression) /\ AfterFixNegativeNumbers)
    => /\ Count(tokenArray, <<"-">>) = Cardinality(DoubledMinus(Expression))
       /\ DoubledMinus(Expression) = {}
            => /\ Count(postfixArray, <<"-">>) = 0
               /\ lastOp.op # <<"-">>

\* the evaluator has applied '-' to two numbers and returned the difference
C7_Witness ==
  /\ pc = "returned"
  /\ IsExpression(Expression)
  /\ lastOp.op = <<"-">>
  /\ lastOp.y.t # "undef"
  /\ DoubledMinus(Expression) # {}

====
